---- MODULE Spec2Model ----
(***************************************************************************)
(* A model of bert_e2e_absa/work.py: predict() and                         *)
(* get_unique_prediction_results().  One call of predict is followed from  *)
(* the schema test (lines 183-193) through the per-sentence loop (lines    *)
(* 201-279) to the returned Predict_Result (lines 281-287).                *)
(*                                                                         *)
(* Indices are kept as the code has them (0-based); a TLA+ sequence is     *)
(* 1-based, so the element the code calls x[i] is x[i + 1] here.           *)
(* Scores are integers: the code only compares them and takes maxima.      *)
(*                                                                         *)
(* seq_utils (ot2bieos_ts, bio2ot_ts, tag2ts) is imported by work.py       *)
(* (line 13); the three operators of that name below follow sections 4.2   *)
(* and 4.3 of the specification.                                           *)
(***************************************************************************)
EXTENDS Integers, Sequences, FiniteSets

VARIABLES
    schema,               \* args.tagging_schema
    absa_type,            \* model.tagger_config.absa_type
    batch,                \* the dataset: one record per sentence, in order
    pc,                   \* "start" | "loop" | "done" | "failed"
    err,                  \* the exception that ended predict, "" if none
    idx,                  \* line 181 / 279
    target_list,          \* line 175
    words_list,           \* line 176
    gold_target_list,     \* line 177
    sentiment_output,     \* line 178
    pred_tags,            \* line 239-247, of the sentence processed last
    p_ts_sequence,        \* line 249, of the sentence processed last
    gold_labels_per_seq,  \* line 262, of the sentence processed last
    result                \* <<>> until predict returns, then <<Predict_Result>>

vars == << schema, absa_type, batch, pc, err, idx, target_list, words_list,
           gold_target_list, sentiment_output, pred_tags, p_ts_sequence,
           gold_labels_per_seq, result >>

(***************************************************************************)
(* Bounds of the model.                                                    *)
(***************************************************************************)
MaxBatch == 2       \* sentences in a batch of the general specification
MaxTags == 4        \* tokens of a sentence whose predicted tags vary
MaxGoldWords == 4   \* tokens of a sentence whose gold label ids vary
MaxRankWords == 4   \* tokens of a sentence whose scores vary

(***************************************************************************)
(* Label vocabularies, lines 183-199.                                      *)
(***************************************************************************)
BIEOS_vocab ==
    << "O", "EQ", "B-POS", "I-POS", "E-POS", "S-POS",
       "B-NEG", "I-NEG", "E-NEG", "S-NEG",
       "B-NEU", "I-NEU", "E-NEU", "S-NEU" >>

BIO_vocab ==
    << "O", "EQ", "B-POS", "I-POS", "B-NEG", "I-NEG", "B-NEU", "I-NEU" >>

OT_vocab ==
    << "O", "EQ", "T-POS", "T-NEG", "T-NEU" >>

SchemaKnownLenient(s) == TRUE

SchemaKnown(s) == s \in {"BIEOS", "BIO", "OT"}

\* the vocabulary as the sequence of its tags, the tag of id k at place k + 1
absa_label_vocab(s) ==
    IF s = "BIEOS" THEN BIEOS_vocab
    ELSE IF s = "BIO" THEN BIO_vocab
    ELSE IF s = "OT" THEN OT_vocab
    ELSE BIEOS_vocab   \* never used: predict has raised (line 193)

absa_id2tag(s, label) == absa_label_vocab(s)[label + 1]

NumLabels(s) == Len(absa_label_vocab(s))

(***************************************************************************)
(* numpy on one row of the score matrix: argmax (line 219) and the max of  *)
(* the columns 2: (line 230).  A row is a function 0..C-1 -> score.        *)
(***************************************************************************)
\* a list comprehension: the list whose k-th element is f[k], k = 1..n
List(f) == SubSeq(f, 1, Len(f))

SetMax(S) == CHOOSE m \in S : \A x \in S : x <= m

ArgMax(row) ==
    LET top == SetMax({row[k] : k \in DOMAIN row})
    IN  CHOOSE k \in DOMAIN row : row[k] = top /\ \A j \in DOMAIN row : j < k => row[j] < top

MaxFrom2(row) == SetMax({row[k] : k \in {j \in DOMAIN row : j >= 2}})

Min(a, b) == IF a < b THEN a ELSE b

\* preds[0][label_indices], lines 219 and 226
pred_labels(s) ==
    List([k \in 1..Len(s.label_indices) |-> ArgMax(s.probs[s.label_indices[k] + 1])])

\* the last row of the slice probs[0][1:len(words)], exclusive, line 230
SliceEnd(n, rows) == Min(n, rows)

\* np.max(np.array(probs[0])[1:len(words), 2:], axis=1), line 230
max_values(s) ==
    LET stop == SliceEnd(Len(s.words), Len(s.probs))
    IN  List([j \in 1..(IF stop > 1 THEN stop - 1 ELSE 0) |-> MaxFrom2(s.probs[j + 1])])

\* line 232: (index, value) with enumerate's 0-based index
tuple_list(s) ==
    LET mv == max_values(s)
    IN  List([j \in 1..Len(mv) |-> << j - 1, mv[j] >>])

(***************************************************************************)
(* sorted(tuple_list, key=lambda x: x[1], reverse=True), line 234: a       *)
(* stable sort, and reverse=True keeps the order of equal keys.            *)
(***************************************************************************)
InsertAt(sorted, x, k) ==
    SubSeq(sorted, 1, k - 1) \o << x >> \o SubSeq(sorted, k, Len(sorted))

\* a sort that is not stable: an element goes before its equals
PlaceTiesFirst(sorted, x) ==
    Cardinality({k \in 1..Len(sorted) : sorted[k][2] > x[2]}) + 1

\* the place of x among the already sorted: behind every element not smaller
Place(sorted, x) ==
    Cardinality({k \in 1..Len(sorted) : sorted[k][2] >= x[2]}) + 1

RECURSIVE SortedFrom(_, _, _)
SortedFrom(list, k, sorted) ==
    IF k > Len(list) THEN sorted
    ELSE SortedFrom(list, k + 1, InsertAt(sorted, list[k], Place(sorted, list[k])))

sorted_reverse(list) == SortedFrom(list, 1, << >>)

(***************************************************************************)
(* get_unique_prediction_results, lines 152-165.                           *)
(***************************************************************************)
\* line 153, one sentence: (words_list[i][j], score) for (j, score) in sublist
predictions_result(words, sublist) ==
    List([k \in 1..Len(sublist) |-> << words[sublist[k][1] + 1], sublist[k][2] >>])

KeepsOnTie(word, score, seen_words) ==
    word \notin DOMAIN seen_words \/ score >= seen_words[word]

\* line 161
Keeps(word, score, seen_words) ==
    word \notin DOMAIN seen_words \/ score > seen_words[word]

\* lines 158-163, from the k-th pair of the sublist on
RECURSIVE new_sublist(_, _, _, _)
new_sublist(sublist, k, seen_words, acc) ==
    IF k > Len(sublist) THEN acc
    ELSE LET word == sublist[k][1]
             score == sublist[k][2]
         IN  IF Keeps(word, score, seen_words)
             THEN new_sublist(sublist, k + 1,
                              [w \in DOMAIN seen_words \cup {word} |->
                                   IF w = word THEN score ELSE seen_words[w]],
                              Append(acc, << word, score >>))
             ELSE new_sublist(sublist, k + 1, seen_words, acc)

get_unique_prediction_results(wl, tl) ==
    List([i \in 1..Len(tl) |-> new_sublist(predictions_result(wl[i], tl[i]), 1, << >>, << >>)])

(***************************************************************************)
(* The gold words of a sentence, lines 262-270.                            *)
(***************************************************************************)
GoldSelectedFrom1(a, i, n) == a >= 1 /\ 0 < i /\ i < n

\* line 269
GoldSelected(a, i, n) == a > 1 /\ 0 < i /\ i < n

\* lines 268-270, from position i (0-based) of the label ids on
RECURSIVE gold_words_from(_, _, _, _)
gold_words_from(labels, words, i, acc) ==
    IF i >= Len(labels) THEN acc
    ELSE gold_words_from(labels, words, i + 1,
                         IF GoldSelected(labels[i + 1], i, Len(words))
                         THEN Append(acc, words[i])      \* words[i - 1] of the code
                         ELSE acc)

gold_words(s) == IF s.has_labels THEN gold_words_from(s.labels, s.words, 0, << >>) ELSE << >>

(***************************************************************************)
(* Tags.  The position letter and the polarity suffix of a tag; O and EQ   *)
(* have neither and give "O" for both.                                     *)
(***************************************************************************)
Polarities == << "POS", "NEG", "NEU" >>

TagPos(t) ==
    IF t \in {"B-POS", "B-NEG", "B-NEU"} THEN "B"
    ELSE IF t \in {"I-POS", "I-NEG", "I-NEU"} THEN "I"
    ELSE IF t \in {"E-POS", "E-NEG", "E-NEU"} THEN "E"
    ELSE IF t \in {"S-POS", "S-NEG", "S-NEU"} THEN "S"
    ELSE IF t \in {"T-POS", "T-NEG", "T-NEU"} THEN "T"
    ELSE "O"

TagPol(t) ==
    IF t \in {"B-POS", "I-POS", "E-POS", "S-POS", "T-POS"} THEN "POS"
    ELSE IF t \in {"B-NEG", "I-NEG", "E-NEG", "S-NEG", "T-NEG"} THEN "NEG"
    ELSE IF t \in {"B-NEU", "I-NEU", "E-NEU", "S-NEU", "T-NEU"} THEN "NEU"
    ELSE "O"

\* the tag '%s-%s' % (pos, pol), pos one of B, I, E, S, T
MkTag(pos, pol) ==
    LET p == CHOOSE k \in 1..3 : Polarities[k] = pol
    IN  IF pos = "T" THEN OT_vocab[2 + p]
        ELSE BIEOS_vocab[2 + 4 * (p - 1) +
                         (IF pos = "B" THEN 1 ELSE IF pos = "I" THEN 2
                          ELSE IF pos = "E" THEN 3 ELSE 4)]

(***************************************************************************)
(* The Schema Converter, specification section 4.2.                        *)
(***************************************************************************)
\* BIO -> OT: B-x and I-x become T-x, O and EQ are unchanged
bio2ot_ts(tags) ==
    List([k \in 1..Len(tags) |->
            IF TagPos(tags[k]) \in {"B", "I"} THEN MkTag("T", TagPol(tags[k])) ELSE tags[k]])

\* OT -> BIEOS: T-x becomes S-x, B-x, E-x or I-x by whether the previous and
\* the next tag are T-x of the same polarity; O and EQ are unchanged
ot2bieos_ts(tags) ==
    List([k \in 1..Len(tags) |->
            IF TagPos(tags[k]) # "T" THEN tags[k]
            ELSE LET prev == k > 1 /\ tags[k - 1] = tags[k]
                     next == k < Len(tags) /\ tags[k + 1] = tags[k]
                 IN  MkTag(IF prev /\ next THEN "I"
                           ELSE IF prev THEN "E"
                           ELSE IF next THEN "B"
                           ELSE "S", TagPol(tags[k]))])

\* lines 241-247
normalize(s, tags) ==
    IF s = "OT" THEN ot2bieos_ts(tags)
    ELSE IF s = "BIO" THEN ot2bieos_ts(bio2ot_ts(tags))
    ELSE tags

(***************************************************************************)
(* The Span Extractor, specification section 4.3.  The state is `open`:    *)
(* << >> for OUTSIDE, << begin, polarity >> for IN_SPAN(begin, polarity).  *)
(* A span is << begin, end, polarity >>, both ends inclusive and 0-based.  *)
(***************************************************************************)
AfterSingletonStays(open) == open

\* "S-x (any state): emit (i, i, x) immediately; stay/return to OUTSIDE"
AfterSingleton(open) == << >>

\* the span closed implicitly by a B, O or EQ tag at position i
Closed(open, i, out) ==
    IF open = << >> THEN out ELSE Append(out, << open[1], i - 1, open[2] >>)

RECURSIVE tag2ts_from(_, _, _, _)
tag2ts_from(tags, i, open, out) ==
    IF i >= Len(tags)
    THEN Closed(open, Len(tags), out)              \* flush at the end
    ELSE LET pos == TagPos(tags[i + 1])
             pol == TagPol(tags[i + 1])
         IN  IF pos = "S"
             THEN tag2ts_from(tags, i + 1, AfterSingleton(open), Append(out, << i, i, pol >>))
             ELSE IF pos = "B"
             THEN tag2ts_from(tags, i + 1, << i, pol >>, Closed(open, i, out))
             ELSE IF pos = "I"
             THEN tag2ts_from(tags, i + 1, open, out)
             ELSE IF pos = "E"
             THEN tag2ts_from(tags, i + 1, << >>,
                              Append(out, IF open = << >> THEN << i, i, pol >>
                                          ELSE << open[1], i, pol >>))
             ELSE tag2ts_from(tags, i + 1, << >>, Closed(open, i, out))   \* O, EQ

tag2ts(tags) == tag2ts_from(tags, 0, << >>, << >>)

(***************************************************************************)
(* Lines 253-259: one Aspect_With_Sentiment per span.                      *)
(***************************************************************************)
\* words[beg:end+1] is empty, so that aspect[0] raises IndexError (line 256)
EmptySlice(words, t) == t[1] >= Len(words) \/ t[2] < t[1]

Aspect_With_Sentiment_Last(words, t) ==
    [aspect |-> words[t[2] + 1], indices |-> << t[1], t[2] >>, sentiment |-> t[3]]

\* aspect = words[beg:end+1]; Aspect_With_Sentiment(aspect[0], (beg, end), sentiment)
Aspect_With_Sentiment(words, t) ==
    [aspect |-> words[t[1] + 1], indices |-> << t[1], t[2] >>, sentiment |-> t[3]]

sentiments_temp(words, ts) ==
    List([k \in 1..Len(ts) |-> Aspect_With_Sentiment(words, ts[k])])

(***************************************************************************)
(* predict, lines 168-287.                                                 *)
(***************************************************************************)
\* the sentence of this iteration: evaluate_label_ids[idx], total_words[idx],
\* the logits and the labels of the batch, lines 204-226
Current == batch[idx + 1]

\* lines 183-191: the schema is one of the three, the vocabulary is built
CheckSchema ==
    /\ pc = "start"
    /\ SchemaKnown(schema)
    /\ pc' = "loop"
    /\ UNCHANGED << schema, absa_type, batch, err, idx, target_list, words_list,
                    gold_target_list, sentiment_output, pred_tags, p_ts_sequence,
                    gold_labels_per_seq, result >>

\* lines 192-193: raise Exception("Invalid tagging schema ...")
RaiseInvalidSchema ==
    /\ pc = "start"
    /\ ~ SchemaKnown(schema)
    /\ pc' = "failed"
    /\ err' = "InvalidTaggingSchema"
    /\ UNCHANGED << schema, absa_type, batch, idx, target_list, words_list,
                    gold_target_list, sentiment_output, pred_tags, p_ts_sequence,
                    gold_labels_per_seq, result >>

AssertionSkipped(s) == FALSE

\* line 228
AssertionFails(s) == Len(s.words) # Len(pred_labels(s))

\* line 239-247
PredTagsOf(s) ==
    LET labels == pred_labels(s)
    IN  normalize(schema, List([k \in 1..Len(labels) |-> absa_id2tag(schema, labels[k])]))

\* line 230: with a crf tagger probs is still [] (line 202) and probs[0] raises
ProbsMissing == absa_type = "crf"

\* line 256: aspect[0] of an empty slice
AspectMissing(s) ==
    LET ts == tag2ts(PredTagsOf(s))
    IN  \E k \in 1..Len(ts) : EmptySlice(s.words, ts[k])

\* line 228: assert len(words) == len(pred_labels) fails and ends predict
RaiseAssertion ==
    /\ pc = "loop"
    /\ idx < Len(batch)
    /\ AssertionFails(Current)
    /\ pc' = "failed"
    /\ err' = "AssertionError"
    /\ UNCHANGED << schema, absa_type, batch, idx, target_list, words_list,
                    gold_target_list, sentiment_output, pred_tags, p_ts_sequence,
                    gold_labels_per_seq, result >>

\* line 230 or line 256: an IndexError ends predict; at line 256 the sentence's
\* ranking and words are already appended (lines 236-237)
RaiseIndexError ==
    /\ pc = "loop"
    /\ idx < Len(batch)
    /\ ~ AssertionFails(Current)
    /\ ProbsMissing \/ AspectMissing(Current)
    /\ pc' = "failed"
    /\ err' = "IndexError"
    /\ IF ProbsMissing
       THEN UNCHANGED << target_list, words_list, pred_tags, p_ts_sequence >>
       ELSE /\ target_list' = Append(target_list, sorted_reverse(tuple_list(Current)))
            /\ words_list' = Append(words_list, Current.words)
            /\ pred_tags' = PredTagsOf(Current)
            /\ p_ts_sequence' = tag2ts(PredTagsOf(Current))
    /\ UNCHANGED << schema, absa_type, batch, idx, gold_target_list,
                    sentiment_output, gold_labels_per_seq, result >>

\* lines 201-279: one iteration of the loop that runs to its end
ProcessSentence ==
    /\ pc = "loop"
    /\ idx < Len(batch)
    /\ ~ AssertionFails(Current)
    /\ ~ ProbsMissing
    /\ ~ AspectMissing(Current)
    /\ target_list' = Append(target_list, sorted_reverse(tuple_list(Current)))
    /\ words_list' = Append(words_list, Current.words)
    /\ pred_tags' = PredTagsOf(Current)
    /\ p_ts_sequence' = tag2ts(pred_tags')
    /\ sentiment_output' =
           Append(sentiment_output, sentiments_temp(Current.words, p_ts_sequence'))
    /\ gold_labels_per_seq' = gold_words(Current)
    /\ gold_target_list' =
           IF Current.has_labels                     \* line 264
           THEN Append(gold_target_list, gold_labels_per_seq')   \* line 277
           ELSE gold_target_list
    /\ idx' = idx + 1
    /\ UNCHANGED << schema, absa_type, batch, pc, err, result >>

\* lines 281-287
Return ==
    /\ pc = "loop"
    /\ idx = Len(batch)
    /\ result' = << [unique_predictions |->
                         get_unique_prediction_results(words_list, target_list),
                     gold_targets |-> gold_target_list,
                     aspects |-> sentiment_output] >>
    /\ pc' = "done"
    /\ UNCHANGED << schema, absa_type, batch, err, idx, target_list, words_list,
                    gold_target_list, sentiment_output, pred_tags, p_ts_sequence,
                    gold_labels_per_seq >>

Next ==
    \/ CheckSchema
    \/ RaiseInvalidSchema
    \/ RaiseAssertion
    \/ RaiseIndexError
    \/ ProcessSentence
    \/ Return

(***************************************************************************)
(* The inputs: the batches predict is run on.                              *)
(***************************************************************************)
Tokens == << "a", "b", "c", "d", "e", "f" >>

Schemas == {"BIEOS", "BIO", "OT", "BIOES", "bieos"}

\* a row of scores: v at class hi, w at class lo, 0 elsewhere
Row(s, hi, v, lo, w) ==
    [k \in 0..(NumLabels(s) - 1) |-> IF k = hi THEN v ELSE IF k = lo THEN w ELSE 0]

OneHot(s, c) == Row(s, c, 1, c, 1)

ZeroRow(s) == Row(s, 0, 0, 0, 0)

Zeros(n) == [k \in 1..n |-> 0]

\* a sentence of n words, each one word piece: [CLS] w1 .. wn [SEP], the word k
\* at row k; rows holds the rows of the words
Sentence(s, words, rows, labels, has) ==
    [words |-> words,
     label_indices |-> [k \in 1..Len(rows) |-> k],
     probs |-> << ZeroRow(s) >> \o rows \o << ZeroRow(s) >>,
     labels |-> labels,
     has_labels |-> has]

OneHots(s, classes) == [k \in 1..Len(classes) |-> OneHot(s, classes[k])]

\* gold ids with a sentiment id at position 1
GoldAt1(n) == [k \in 1..n |-> IF k = 2 THEN 2 ELSE 0]

CommonShapes ==
    { << << "a" >>, << 2 >> >>,
      << << "a", "b" >>, << 2, 3 >> >>,
      << << "b", "a", "b" >>, << 0, 2, 2 >> >> }

CommonSentences(s) ==
    UNION { { Sentence(s, sh[1], OneHots(s, sh[2]), Zeros(Len(sh[1]) + 2), TRUE),
              Sentence(s, sh[1], OneHots(s, sh[2]), GoldAt1(Len(sh[1]) + 2), TRUE),
              Sentence(s, sh[1], OneHots(s, sh[2]), << >>, FALSE) } : sh \in CommonShapes }
    \cup { Sentence(s, << "a", "b" >>, OneHots(s, << 2 >>), Zeros(3), TRUE) }

BatchesOf(S, n) == UNION { [1..m -> S] : m \in 0..n }

InitLocals ==
    /\ pc = "start"
    /\ err = ""
    /\ idx = 0
    /\ target_list = << >>
    /\ words_list = << >>
    /\ gold_target_list = << >>
    /\ sentiment_output = << >>
    /\ pred_tags = << >>
    /\ p_ts_sequence = << >>
    /\ gold_labels_per_seq = << >>
    /\ result = << >>

Init ==
    /\ schema \in Schemas
    /\ absa_type \in {"linear", "crf"}
    /\ batch \in BatchesOf(CommonSentences(schema), MaxBatch)
    /\ InitLocals

Spec == Init /\ [][Next]_vars

(***************************************************************************)
(* Three more families of inputs, each run through the same predict: one   *)
(* sentence whose predicted tags, gold label ids or scores range over a    *)
(* larger set than the sentences of Init do.                               *)
(***************************************************************************)
WordsN(n) == SubSeq(Tokens, 1, n)

\* the classes the predicted tags are drawn from: O, EQ and two polarities
ExtractClasses(s) == IF s = "BIEOS" THEN 0..9 ELSE IF s = "BIO" THEN 0..5 ELSE 0..3

GoldIds == {0, 1, 2, 5}

\* rows whose best sentiment score is 0, 1 (below the score of EQ) and 2
RankRows(s) == { OneHot(s, 0), Row(s, 1, 3, 2, 1), Row(s, 3, 2, 3, 2) }

InitOne(S) ==
    /\ schema \in S
    /\ absa_type = "linear"
    /\ InitLocals

InitExtract ==
    \/ Init
    \/ /\ InitOne({"BIEOS", "BIO", "OT"})
       /\ \E n \in 1..MaxTags : \E c \in [1..n -> ExtractClasses(schema)] :
              batch = << Sentence(schema, WordsN(n), OneHots(schema, c), Zeros(n + 2), TRUE) >>

InitGold ==
    \/ Init
    \/ /\ InitOne({"BIEOS"})
       /\ \E n \in 1..MaxGoldWords : \E g \in [1..(n + 2) -> GoldIds] :
              batch = << Sentence(schema, WordsN(n), OneHots(schema, Zeros(n)), g, TRUE) >>

InitRank ==
    \/ Init
    \/ /\ InitOne({"BIEOS", "OT"})
       /\ \E n \in 1..MaxRankWords :
              \E w \in [1..n -> {"a", "b", "c"}], r \in [1..n -> RankRows(schema)] :
                  batch = << Sentence(schema, w, r, Zeros(n + 2), TRUE) >>

SpecExtract == InitExtract /\ [][Next]_vars

SpecGold == InitGold /\ [][Next]_vars

SpecRank == InitRank /\ [][Next]_vars

(***************************************************************************)
(* The properties.                                                         *)
(***************************************************************************)
ValidSchemas == {"OT", "BIO", "BIEOS"}

\* predict has gone through at least one sentence and has not raised
Processed == idx > 0 /\ pc \in {"loop", "done"}

\* the candidates of sentence i before deduplication: the term of each ranked
\* (token index, score) pair with its score
Candidates(i) ==
    { << words_list[i][target_list[i][m][1] + 1], target_list[i][m][2] >> :
        m \in 1..Len(target_list[i]) }

\* the k-th smallest element of a set of numbers
Nth(S, k) == CHOOSE p \in S : Cardinality({q \in S : q <= p}) = k

\* C1: in every ranked-candidate list predict returns, no term text occurs in
\* two entries, every entry is one of the sentence's candidates, and its score
\* is the greatest score among the candidates of the same term text.
C1_UniqueMaxPerTerm ==
    pc = "done" =>
        \A i \in 1..Len(result[1].unique_predictions) :
            LET u == result[1].unique_predictions[i]
            IN  /\ \A k, j \in 1..Len(u) : u[k][1] = u[j][1] => k = j
                /\ \A k \in 1..Len(u) :
                       /\ u[k] \in Candidates(i)
                       /\ \A c \in Candidates(i) : c[1] = u[k][1] => c[2] <= u[k][2]
                /\ \A c \in Candidates(i) : \E k \in 1..Len(u) : u[k][1] = c[1]

\* C1 witness: a returned list from which deduplication has removed the lower
\* scored occurrence of a term and kept two terms.
C1_Witness ==
    /\ pc = "done"
    /\ \E i \in 1..Len(result[1].unique_predictions) :
           /\ Len(result[1].unique_predictions[i]) = 2
           /\ Len(target_list[i]) = 3
           /\ \E c, d \in Candidates(i) : c[1] = d[1] /\ c[2] < d[2]

\* C2: every ranking is ordered by score non-increasing with equal scores in
\* the order of their token positions (after the sort), and every returned
\* list is, in order, a selection of entries of that ranking (after the
\* deduplication), so it is non-increasing and keeps the order of ties too.
C2_StableDescending ==
    /\ \A i \in 1..Len(target_list) :
           \A k, j \in 1..Len(target_list[i]) :
               k < j => \/ target_list[i][k][2] > target_list[i][j][2]
                        \/ /\ target_list[i][k][2] = target_list[i][j][2]
                           /\ target_list[i][k][1] < target_list[i][j][1]
    /\ pc = "done" =>
           \A i \in 1..Len(result[1].unique_predictions) :
               LET u == result[1].unique_predictions[i]
                   r == target_list[i]
               IN  /\ \A k, j \in 1..Len(u) : k < j => u[k][2] >= u[j][2]
                   /\ \E S \in SUBSET (1..Len(r)) :
                          /\ Cardinality(S) = Len(u)
                          /\ \A k \in 1..Len(u) :
                                 u[k] = << words_list[i][r[Nth(S, k)][1] + 1],
                                           r[Nth(S, k)][2] >>

\* C2 witness: a returned list in which two different terms tie, ranked below
\* a better one.
C2_Witness ==
    /\ pc = "done"
    /\ \E i \in 1..Len(result[1].unique_predictions) :
           LET u == result[1].unique_predictions[i]
           IN  /\ Len(u) = 3
               /\ u[1][2] > u[2][2]
               /\ u[2][2] = u[3][2]

\* the positions i (0-based) of a sentence with 1 <= i < len(words) whose gold
\* label id is greater than 1
GoldPositions(s) ==
    { i \in 1..(Len(s.words) - 1) : i < Len(s.labels) /\ s.labels[i + 1] > 1 }

\* C3: the gold words of a sentence with gold label ids are exactly the tokens
\* that precede the positions i, 1 <= i < len(tokens), whose label id is
\* greater than 1, in ascending order of i; position 0 and the positions from
\* len(tokens) on contribute nothing.  They are what predict appends to the
\* gold targets.
C3_GoldAlignment ==
    (Processed /\ batch[idx].has_labels) =>
        LET P == GoldPositions(batch[idx])
            w == batch[idx].words
        IN  /\ Len(gold_labels_per_seq) = Cardinality(P)
            /\ \A k \in 1..Cardinality(P) : gold_labels_per_seq[k] = w[Nth(P, k)]
            /\ gold_target_list # << >>
            /\ gold_target_list[Len(gold_target_list)] = gold_labels_per_seq

\* C3 witness: the gold ids [2,0,5,0] over the tokens [a,b,c,d], followed by
\* the ids [5,2] of two padding positions, give [b], as [0,0,5,0] does: id 5
\* at position 2 selects the token at position 1, position 0 and the padding
\* select nothing.
C3_Witness ==
    /\ Processed
    /\ batch[idx].words = << "a", "b", "c", "d" >>
    /\ batch[idx].labels = << 2, 0, 5, 0, 5, 2 >>
    /\ gold_labels_per_seq = << "b" >>

C5_MismatchIsLocal ==
    (pc \in {"done", "failed"} /\ schema \in ValidSchemas /\ absa_type = "linear") =>
        /\ pc = "done"
        /\ \A k \in 1..Len(batch) :
               ~ AssertionFails(batch[k]) =>
                   \E j \in 1..Len(result[1].aspects) : words_list[j] = batch[k].words

\* C5 (amended): a length mismatch ends predict with the AssertionError of
\* line 228 at the first such sentence: no Predict_Result is returned, the
\* sentences from that one on are not processed, and the lists hold what the
\* sentences before it gave; predict goes on and returns only while no
\* sentence it has reached has a mismatch.
C5_MismatchAborts ==
    /\ (pc = "failed" /\ err = "AssertionError") =>
           /\ idx < Len(batch)
           /\ Len(batch[idx + 1].words) # Len(batch[idx + 1].label_indices)
           /\ result = << >>
           /\ Len(words_list) = idx /\ Len(target_list) = idx
           /\ Len(sentiment_output) = idx
           /\ \A k \in 1..idx : words_list[k] = batch[k].words
    /\ pc \in {"loop", "done"} =>
           \A k \in 1..idx : Len(batch[k].words) = Len(batch[k].label_indices)
    /\ pc = "done" => idx = Len(batch)
    /\ (pc = "loop" /\ idx < Len(batch)
           /\ Len(batch[idx + 1].words) # Len(batch[idx + 1].label_indices)) =>
           ~ ENABLED ProcessSentence

\* C5 witness: the assertion has failed on the second sentence of a batch,
\* after the first one was processed.
C5_Witness ==
    /\ pc = "failed"
    /\ err = "AssertionError"
    /\ idx = 1
    /\ Len(batch) >= 2
    /\ Len(sentiment_output) = 1
    /\ result = << >>

\* C6: under a schema name other than OT, BIO and BIEOS predict ends with the
\* invalid-schema error before a sentence is decoded and returns nothing;
\* under the three names that error is never raised.
C6_UnknownSchema ==
    /\ (schema \notin ValidSchemas /\ pc # "start") =>
           /\ pc = "failed"
           /\ err = "InvalidTaggingSchema"
           /\ idx = 0
           /\ words_list = << >> /\ target_list = << >>
           /\ sentiment_output = << >> /\ gold_target_list = << >>
           /\ result = << >>
    /\ schema \in ValidSchemas => err # "InvalidTaggingSchema"

\* C6 witness: predict has raised the invalid-schema error on a batch of
\* sentences.
C6_Witness ==
    /\ pc = "failed"
    /\ err = "InvalidTaggingSchema"
    /\ schema \in {"BIOES", "bieos"}
    /\ Len(batch) >= 1

\* C7: the spans extracted from the predicted tags of a sentence of n tokens,
\* however malformed the tags, lie within 0..n-1 with begin <= end, and each
\* span ends before the next one begins (so they do not overlap and their
\* begins increase strictly); extraction raises nothing.
C7_WellFormedSpans ==
    /\ Processed =>
           /\ Len(pred_tags) = Len(batch[idx].words)
           /\ \A k \in 1..Len(p_ts_sequence) :
                  /\ 0 <= p_ts_sequence[k][1]
                  /\ p_ts_sequence[k][1] <= p_ts_sequence[k][2]
                  /\ p_ts_sequence[k][2] < Len(pred_tags)
           /\ \A k, j \in 1..Len(p_ts_sequence) :
                  k < j => p_ts_sequence[k][2] < p_ts_sequence[j][1]
    /\ (pc = "failed" /\ err = "IndexError") => absa_type = "crf"

\* C7 witness: an orphan I, a B that follows a B, a polarity that changes
\* inside a run and a sequence that ends inside a span.
C7_Witness ==
    /\ Processed
    /\ pred_tags = << "I-POS", "B-POS", "B-NEG", "I-POS" >>
    /\ p_ts_sequence = << << 1, 1, "POS" >>, << 2, 3, "NEG" >> >>

\* C8 (as claimed): every position of the normalised tag sequence tagged B, I,
\* E or S lies in exactly one extracted span, and no span begins at a position
\* tagged O or EQ.
C8_Coverage ==
    Processed =>
        \A i \in 0..(Len(pred_tags) - 1) :
            /\ TagPos(pred_tags[i + 1]) \in {"B", "I", "E", "S"} =>
                   Cardinality({ k \in 1..Len(p_ts_sequence) :
                                   p_ts_sequence[k][1] <= i /\ i <= p_ts_sequence[k][2] }) = 1
            /\ TagPos(pred_tags[i + 1]) = "O" =>
                   \A k \in 1..Len(p_ts_sequence) : p_ts_sequence[k][1] # i

\* C9 (as claimed): each sentence has one candidate per token k = 0..n-1, the
\* pair of k with the greatest sentiment-class score of the row of token k,
\* and every token text of the sentence is in its returned list.
C9_EveryTokenScored ==
    /\ \A i \in 1..Len(target_list) :
           /\ Len(target_list[i]) = Len(batch[i].words)
           /\ \A k \in 0..(Len(batch[i].words) - 1) :
                  << k, MaxFrom2(batch[i].probs[batch[i].label_indices[k + 1] + 1]) >>
                      \in { target_list[i][m] : m \in 1..Len(target_list[i]) }
    /\ pc = "done" =>
           \A i \in 1..Len(result[1].unique_predictions) :
               \A k \in 1..Len(batch[i].words) :
                   \E m \in 1..Len(result[1].unique_predictions[i]) :
                       result[1].unique_predictions[i][m][1] = batch[i].words[k]

\* C10: the aspects entry of every processed sentence has one
\* Aspect_With_Sentiment per extracted span, in the order of the spans: the
\* token at the span's begin, the span's two indices and its polarity; the
\* returned aspects are these entries.
C10_AspectPerSpan ==
    /\ pc \in {"loop", "done"} =>
           /\ Len(sentiment_output) = idx
           /\ \A i \in 1..idx :
                  LET ts == tag2ts(PredTagsOf(batch[i]))
                      a == sentiment_output[i]
                  IN  /\ Len(a) = Len(ts)
                      /\ \A k \in 1..Len(ts) :
                             /\ a[k].aspect = batch[i].words[ts[k][1] + 1]
                             /\ a[k].indices = << ts[k][1], ts[k][2] >>
                             /\ a[k].sentiment = ts[k][3]
    /\ Processed => p_ts_sequence = tag2ts(PredTagsOf(batch[idx]))
    /\ pc = "done" => result[1].aspects = sentiment_output

\* C10 witness: the returned aspects of a sentence with a span of two tokens
\* and a span of one.
C10_Witness ==
    /\ pc = "done"
    /\ \E i \in 1..Len(batch) :
           /\ batch[i].words = << "a", "b", "c", "d" >>
           /\ result[1].aspects[i] =
                  << [aspect |-> "a", indices |-> << 0, 1 >>, sentiment |-> "POS"],
                     [aspect |-> "d", indices |-> << 3, 3 >>, sentiment |-> "NEG"] >>

====
